---- MODULE Spec2Model ----
(***************************************************************************)
(* Model of src/Risk.py: the numeric core of the financial analysis app    *)
(* (financial_projection, dcf_valuation, calculate_npv,                    *)
(* monte_carlo_simulation) and the sensitivity sweep of the NPV page.      *)
(*                                                                         *)
(* Numbers are exact rationals <<n, d>> in lowest terms with d > 0.  A     *)
(* Python float division by zero raises ZeroDivisionError; the raised      *)
(* exception is the value <<0, 0>>, which every later operation of the     *)
(* same expression passes on, as the exception unwinds the function.       *)
(* Rounding of IEEE doubles is not modelled.                               *)
(***************************************************************************)
EXTENDS Integers, Sequences, FiniteSets, TLC

VARIABLES
    fn,       \* the function (or script block) the run calls
    args,     \* its arguments: the widget values the script passes
    pc,       \* "ready" before the call, "done" after it returned or raised
    ret       \* [raised |-> BOOLEAN, value |-> what the call returned]

vars == <<fn, args, pc, ret>>

----------------------------------------------------------------------------
(* Arithmetic *)

ZeroDivisionError == <<0, 0>>

Raised(x) == x[2] = 0

Abs(n) == IF n < 0 THEN -n ELSE n

RECURSIVE Gcd(_, _)
Gcd(a, b) == IF b = 0 THEN a ELSE Gcd(b, a % b)

\* The rational n/d in lowest terms, d # 0.
Norm(n, d) ==
    LET g == Gcd(Abs(n), Abs(d))
        s == IF d < 0 THEN -1 ELSE 1
    IN  <<s * (n \div g), s * (d \div g)>>

Num(n) == <<n, 1>>

Frac(n, d) == Norm(n, d)

Add(x, y) ==
    IF Raised(x) \/ Raised(y) THEN ZeroDivisionError
    ELSE LET g == Gcd(x[2], y[2])
         IN  Norm(x[1] * (y[2] \div g) + y[1] * (x[2] \div g), (x[2] \div g) * y[2])

Neg(x) == IF Raised(x) THEN ZeroDivisionError ELSE <<-x[1], x[2]>>

Sub(x, y) == Add(x, Neg(y))

Mul(x, y) ==
    IF Raised(x) \/ Raised(y) THEN ZeroDivisionError
    ELSE LET g1 == Gcd(Abs(x[1]), y[2])
             g2 == Gcd(Abs(y[1]), x[2])
         IN  Norm((x[1] \div g1) * (y[1] \div g2), (x[2] \div g2) * (y[2] \div g1))

\* x / y: ZeroDivisionError when y is zero.
Div(x, y) ==
    IF Raised(x) \/ Raised(y) \/ y[1] = 0 THEN ZeroDivisionError
    ELSE Mul(x, Norm(y[2], y[1]))

\* x ** i for an integer i >= 0; x ** 0 is 1 for every x, 0 included.
RECURSIVE Pow(_, _)
Pow(x, i) == IF i = 0 THEN Num(1) ELSE Mul(Pow(x, i - 1), x)

Less(x, y) == x[1] * y[2] < y[1] * x[2]

\* sum(xs), left to right from 0.
RECURSIVE sum(_)
sum(xs) == IF xs = <<>> THEN Num(0) ELSE Add(sum(SubSeq(xs, 1, Len(xs) - 1)), xs[Len(xs)])

----------------------------------------------------------------------------
(* financial_projection *)

range_start == 1

range_stop == 6

\* Mutant: EBIT taken from the revenue before this year's growth.
projection_row_stale_ebit(year, revenue, growth_rate, ebit_margin, tax_rate, capex_pct, wc_change_pct, depreciation) ==
    LET revenue1  == Mul(revenue, Add(Num(1), growth_rate))
        ebit      == Mul(revenue, ebit_margin)
        nopat     == Mul(ebit, Sub(Num(1), tax_rate))
        capex     == Mul(revenue1, capex_pct)
        wc_change == Mul(revenue1, wc_change_pct)
        fcf       == Sub(Sub(Add(nopat, depreciation), capex), wc_change)
    IN  [Year |-> year, Revenue |-> revenue1, EBIT |-> ebit, NOPAT |-> nopat,
         CapEx |-> capex, WC_Change |-> wc_change, FCF |-> fcf]

\* One pass of the loop body for the revenue carried into it: the row appended.
projection_row(year, revenue, growth_rate, ebit_margin, tax_rate, capex_pct, wc_change_pct, depreciation) ==
    LET revenue1  == Mul(revenue, Add(Num(1), growth_rate))
        ebit      == Mul(revenue1, ebit_margin)
        nopat     == Mul(ebit, Sub(Num(1), tax_rate))
        capex     == Mul(revenue1, capex_pct)
        wc_change == Mul(revenue1, wc_change_pct)
        fcf       == Sub(Sub(Add(nopat, depreciation), capex), wc_change)
    IN  [Year |-> year, Revenue |-> revenue1, EBIT |-> ebit, NOPAT |-> nopat,
         CapEx |-> capex, WC_Change |-> wc_change, FCF |-> fcf]

\* Mutant: every year grows the initial revenue again.
carried_revenue_reset(initial, row) == initial

\* The revenue the next pass of the loop starts from: the local `revenue`
\* was overwritten by `revenue *= (1 + growth_rate)`.
carried_revenue(initial, row) == row.Revenue

RECURSIVE projection_loop(_, _, _, _)
projection_loop(year, revenue, a, projections) ==
    IF year >= range_stop THEN projections
    ELSE LET row == projection_row(year, revenue, a.growth_rate, a.ebit_margin, a.tax_rate,
                                   a.capex_pct, a.wc_change_pct, a.depreciation)
         IN  projection_loop(year + 1, carried_revenue(a.revenue, row), a,
                             Append(projections, row))

financial_projection(a) == projection_loop(range_start, a.revenue, a, <<>>)

----------------------------------------------------------------------------
(* dcf_valuation *)

enumerate_start == 1

\* Mutant: enumerate without start=1, the exponent counted from 0.
discounted_fcf_zero_based(free_cash_flows, discount_rate, k) ==
    Div(free_cash_flows[k], Pow(Add(Num(1), discount_rate), k - 1))

\* Mutant: the cash flow is compounded instead of discounted.
discounted_fcf_compounded(free_cash_flows, discount_rate, k) ==
    Mul(free_cash_flows[k], Pow(Add(Num(1), discount_rate), k - 1 + enumerate_start))

\* fcf / (1 + discount_rate) ** i for the i-th element, i counted from
\* enumerate's start.
discounted_fcf(free_cash_flows, discount_rate, k) ==
    Div(free_cash_flows[k], Pow(Add(Num(1), discount_rate), k - 1 + enumerate_start))

pv_fcf(free_cash_flows, discount_rate) ==
    sum([k \in 1..Len(free_cash_flows) |-> discounted_fcf(free_cash_flows, discount_rate, k)])

\* Mutant: a guard returns a terminal value of 0 when the rates are equal.
terminal_value_guarded(free_cash_flows, discount_rate, terminal_growth_rate) ==
    IF discount_rate = terminal_growth_rate THEN Num(0)
    ELSE Div(Mul(free_cash_flows[Len(free_cash_flows)], Add(Num(1), terminal_growth_rate)),
             Sub(discount_rate, terminal_growth_rate))

terminal_value(free_cash_flows, discount_rate, terminal_growth_rate) ==
    Div(Mul(free_cash_flows[Len(free_cash_flows)], Add(Num(1), terminal_growth_rate)),
        Sub(discount_rate, terminal_growth_rate))

pv_terminal_value(free_cash_flows, discount_rate, terminal_growth_rate) ==
    Div(terminal_value(free_cash_flows, discount_rate, terminal_growth_rate),
        Pow(Add(Num(1), discount_rate), Len(free_cash_flows)))

dcf_valuation(free_cash_flows, discount_rate, terminal_growth_rate) ==
    Add(pv_fcf(free_cash_flows, discount_rate),
        pv_terminal_value(free_cash_flows, discount_rate, terminal_growth_rate))

----------------------------------------------------------------------------
(* calculate_npv *)

\* Mutant: the divisor is r ** i, the 1 + forgotten.
npv_term_no_one(fcff, r, k) == Div(fcff[k], Pow(r, k - 1))

\* Mutant: the exponent counts from 1, as dcf_valuation's does.
npv_term_one_based(fcff, r, k) == Div(fcff[k], Pow(Add(Num(1), r), k))

\* fcff[i] / (1 + r) ** i for i in range(len(fcff)): the 0-based i is k - 1.
npv_term(fcff, r, k) == Div(fcff[k], Pow(Add(Num(1), r), k - 1))

calculate_npv(fcff, r) == sum([k \in 1..Len(fcff) |-> npv_term(fcff, r, k)])

----------------------------------------------------------------------------
(* monte_carlo_simulation *)

\* Mutant: the draw is added unscaled.
normal_unscaled(loc, scale, z) == Add(loc, z)

\* np.random.normal(loc, scale): loc + scale * z for a standard normal draw z.
normal(loc, scale, z) == Add(loc, Mul(scale, z))

\* The list the loop builds for the draws zs, one NPV per draw in draw order.
simulated_npvs(fcff, r_mean, r_std, zs) ==
    [k \in 1..Len(zs) |-> calculate_npv(fcff, normal(r_mean, r_std, zs[k]))]

\* A list of numbers as the outcome of a call: the call raises when
\* computing any element raises.
ListOutcome(xs) ==
    IF \E k \in 1..Len(xs) : Raised(xs[k])
    THEN [raised |-> TRUE, value |-> ZeroDivisionError]
    ELSE [raised |-> FALSE, value |-> xs]

NumOutcome(x) == [raised |-> Raised(x), value |-> x]

monte_carlo_simulation(fcff, r_mean, r_std, zs) ==
    ListOutcome(simulated_npvs(fcff, r_mean, r_std, zs))

----------------------------------------------------------------------------
(* Run Sensitivity Analysis *)

percent == 100

\* Mutant: range(lo, hi), the upper end left out.
range_exclusive(lo, hi) == [k \in 1..(hi - lo) |-> lo + k - 1]

\* range(lo, hi + 1) as a sequence.
range(lo, hi) == [k \in 1..(hi - lo + 1) |-> lo + k - 1]

\* 1 + change / 100
change_factor(change) == Add(Num(1), Div(Num(change), Num(percent)))

modified_fcff(fcff, change) == [k \in 1..Len(fcff) |-> Mul(fcff[k], change_factor(change))]

sensitivity_npv(variable, fcff, base_discount_rate, change) ==
    IF variable = "FCFF"
    THEN calculate_npv(modified_fcff(fcff, change), base_discount_rate)
    ELSE calculate_npv(fcff, Mul(base_discount_rate, change_factor(change)))

\* sensitivity_results: the (change, npv) pairs in sweep order.
sensitivity_results(variable, range_lo, range_hi, fcff, base_discount_rate) ==
    LET changes == range(range_lo, range_hi)
        npvs    == [k \in 1..Len(changes) |->
                       sensitivity_npv(variable, fcff, base_discount_rate, changes[k])]
    IN  IF \E k \in 1..Len(npvs) : Raised(npvs[k])
        THEN [raised |-> TRUE, value |-> ZeroDivisionError]
        ELSE [raised |-> FALSE,
              value |-> [k \in 1..Len(changes) |-> <<changes[k], npvs[k]>>]]

----------------------------------------------------------------------------
(* Inputs *)

MaxLen == 2      \* longest cash-flow schedule drawn
MaxSim == 2      \* largest num_simulations drawn
MaxRange == 1    \* sensitivity_range drawn within -MaxRange..MaxRange

CashFlows == {Num(-1), Num(0), Num(1), Num(2)}

ExampleSchedule == <<Num(100), Num(100), Num(100)>>

Schedules == UNION {[1..n -> CashFlows] : n \in 1..MaxLen} \cup {ExampleSchedule}

Rates == {Num(-3), Frac(-5, 2), Num(-2), Num(-1), Num(0), Frac(1, 10), Frac(1, 4), Num(1)}

\* Stand-ins for the standard normal draws of np.random.normal.
Draws == {Num(-1), Num(0), Num(1)}

ExampleProjection ==
    [revenue |-> Num(5000000), growth_rate |-> Frac(1, 10), ebit_margin |-> Frac(1, 5),
     tax_rate |-> Frac(1, 4), capex_pct |-> Frac(1, 20), wc_change_pct |-> Frac(1, 50),
     depreciation |-> Num(100000)]

ProjectionInputs ==
    [revenue : {Num(-100), Num(0), Num(100)},
     growth_rate : {Frac(-1, 2), Num(0), Frac(1, 10), Frac(1, 2)},
     ebit_margin : {Num(0), Frac(1, 5)},
     tax_rate : {Num(0), Frac(1, 4)},
     capex_pct : {Num(0), Frac(1, 20)},
     wc_change_pct : {Frac(1, 50)},
     depreciation : {Num(0), Num(10)}] \cup {ExampleProjection}

DcfInputs ==
    [free_cash_flows : Schedules, discount_rate : Rates, terminal_growth_rate : Rates]

NpvInputs == [fcff : Schedules, r : Rates]

MonteCarloInputs ==
    [fcff : Schedules, r_mean : Rates, r_std : {Num(0), Frac(1, 2)},
     num_simulations : 0..MaxSim]

ExampleSensitivity ==
    [variable |-> "FCFF", range_lo |-> -10, range_hi |-> 10, fcff |-> ExampleSchedule,
     base_discount_rate |-> Frac(1, 10)]

SensitivityInputs ==
    {a \in [variable : {"FCFF", "Discount Rate"}, range_lo : -MaxRange..MaxRange,
            range_hi : -MaxRange..MaxRange, fcff : Schedules, base_discount_rate : Rates] :
        a.range_lo <= a.range_hi} \cup {ExampleSensitivity}

NoReturn == [raised |-> FALSE, value |-> <<>>]

----------------------------------------------------------------------------
(* The script run: one call on the widget values *)

Init ==
    /\ pc = "ready"
    /\ ret = NoReturn
    /\ \/ fn = "financial_projection" /\ args \in ProjectionInputs
       \/ fn = "dcf_valuation" /\ args \in DcfInputs
       \/ fn = "calculate_npv" /\ args \in NpvInputs
       \/ fn = "monte_carlo_simulation" /\ args \in MonteCarloInputs
       \/ fn = "sensitivity" /\ args \in SensitivityInputs

Return(r) ==
    /\ ret' = r
    /\ pc' = "done"
    /\ UNCHANGED <<fn, args>>

FinancialProjection ==
    /\ pc = "ready" /\ fn = "financial_projection"
    /\ Return([raised |-> FALSE, value |-> financial_projection(args)])

DcfValuation ==
    /\ pc = "ready" /\ fn = "dcf_valuation"
    /\ Return(NumOutcome(dcf_valuation(args.free_cash_flows, args.discount_rate,
                                       args.terminal_growth_rate)))

CalculateNpv ==
    /\ pc = "ready" /\ fn = "calculate_npv"
    /\ Return(NumOutcome(calculate_npv(args.fcff, args.r)))

MonteCarloSimulation ==
    /\ pc = "ready" /\ fn = "monte_carlo_simulation"
    /\ \E zs \in [1..args.num_simulations -> Draws] :
          Return(monte_carlo_simulation(args.fcff, args.r_mean, args.r_std, zs))

RunSensitivityAnalysis ==
    /\ pc = "ready" /\ fn = "sensitivity"
    /\ Return(sensitivity_results(args.variable, args.range_lo, args.range_hi, args.fcff,
                                  args.base_discount_rate))

Next ==
    \/ FinancialProjection
    \/ DcfValuation
    \/ CalculateNpv
    \/ MonteCarloSimulation
    \/ RunSensitivityAnalysis

Spec == Init /\ [][Next]_vars

----------------------------------------------------------------------------
(* Properties *)

Done(f) == pc = "done" /\ fn = f

Rows == ret.value

OnePlus(x) == Add(Num(1), x)

\* C1: financial_projection returns exactly 5 rows whose Year fields are
\* 1, 2, 3, 4, 5 in that order; row 1's Revenue is the initial revenue times
\* (1 + growth_rate) and each later row's Revenue is the previous row's
\* Revenue times (1 + growth_rate).
C1_FiveRowsRevenueCarried ==
    Done("financial_projection") =>
        /\ ~ret.raised
        /\ Len(Rows) = 5
        /\ \A i \in 1..Len(Rows) :
              /\ Rows[i].Year = i
              /\ Rows[i].Revenue =
                    Mul(IF i = 1 THEN args.revenue ELSE Rows[i - 1].Revenue,
                        OnePlus(args.growth_rate))

\* The example inputs compounded over the five years: 5,000,000 * 1.1^5.
C1_Witness ==
    /\ Done("financial_projection")
    /\ args = ExampleProjection
    /\ Rows[5].Year = 5
    /\ Rows[5].Revenue = Num(8052550)

\* C10: every row is consistent with its own Revenue: EBIT = Revenue *
\* ebit_margin, NOPAT = EBIT * (1 - tax_rate), CapEx = Revenue * capex_pct,
\* WC Change = Revenue * wc_change_pct, FCF = NOPAT + depreciation - CapEx -
\* WC Change with the same depreciation in every row; the example inputs give
\* year-1 Revenue 5,500,000, EBIT 1,100,000 and NOPAT 825,000.
C10_RowsConsistent ==
    Done("financial_projection") =>
        /\ \A i \in 1..Len(Rows) :
              /\ Rows[i].EBIT = Mul(Rows[i].Revenue, args.ebit_margin)
              /\ Rows[i].NOPAT = Mul(Rows[i].EBIT, Sub(Num(1), args.tax_rate))
              /\ Rows[i].CapEx = Mul(Rows[i].Revenue, args.capex_pct)
              /\ Rows[i].WC_Change = Mul(Rows[i].Revenue, args.wc_change_pct)
              /\ Rows[i].FCF =
                    Sub(Sub(Add(Rows[i].NOPAT, args.depreciation), Rows[i].CapEx),
                        Rows[i].WC_Change)
        /\ args = ExampleProjection =>
              /\ Rows[1].Revenue = Num(5500000)
              /\ Rows[1].EBIT = Num(1100000)
              /\ Rows[1].NOPAT = Num(825000)

C10_Witness ==
    /\ Done("financial_projection")
    /\ args = ExampleProjection
    /\ Rows[1].EBIT = Num(1100000)
    /\ Rows[1].FCF = Num(540000)

StrictlyIncreasingRevenue == \A i \in 1..(Len(Rows) - 1) : Less(Rows[i].Revenue, Rows[i + 1].Revenue)

StrictlyDecreasingRevenue == \A i \in 1..(Len(Rows) - 1) : Less(Rows[i + 1].Revenue, Rows[i].Revenue)

\* C7 as stated, on the initial revenues the interface documents (>= 0): for
\* every positive growth_rate the Revenue values of the 5 rows are strictly
\* increasing from period 1 to period 5.
C7_Original ==
    (/\ Done("financial_projection")
     /\ Less(Num(0), args.growth_rate)
     /\ ~Less(args.revenue, Num(0))) => StrictlyIncreasingRevenue

\* C7 amended: for every positive growth_rate and positive initial revenue
\* the Revenue values of the 5 rows are strictly increasing; with initial
\* revenue 0 every Revenue is 0, and with a negative initial revenue the
\* Revenue values are strictly decreasing.
C7_IncreasingForPositiveRevenue ==
    (Done("financial_projection") /\ Less(Num(0), args.growth_rate)) =>
        /\ Less(Num(0), args.revenue) => Len(Rows) = 5 /\ StrictlyIncreasingRevenue
        /\ args.revenue = Num(0) => \A i \in 1..Len(Rows) : Rows[i].Revenue = Num(0)
        /\ Less(args.revenue, Num(0)) => StrictlyDecreasingRevenue

C7_Witness ==
    /\ Done("financial_projection")
    /\ Less(Num(0), args.growth_rate)
    /\ Less(Num(0), args.revenue)
    /\ Less(Rows[1].Revenue, Rows[2].Revenue)
    /\ Less(Rows[4].Revenue, Rows[5].Revenue)

PositiveSchedule(xs) == \A k \in 1..Len(xs) : Less(Num(0), xs[k])

\* sum over i = 1..n of fcfs[i] / (1 + r)^i
RECURSIVE DiscountedSum(_, _, _)
DiscountedSum(fcfs, r, n) ==
    IF n = 0 THEN Num(0)
    ELSE Add(DiscountedSum(fcfs, r, n - 1), Div(fcfs[n], Pow(OnePlus(r), n)))

\* fcfs[N] * (1 + g) / (r - g), discounted by (1 + r)^N
DiscountedTerminal(fcfs, r, g) ==
    Div(Div(Mul(fcfs[Len(fcfs)], OnePlus(g)), Sub(r, g)), Pow(OnePlus(r), Len(fcfs)))

EnterpriseValue(fcfs, r, g) == Add(DiscountedSum(fcfs, r, Len(fcfs)), DiscountedTerminal(fcfs, r, g))

\* C2 as stated: on a non-empty schedule with r # g, dcf_valuation returns
\* (a number, not an error) the sum of fcfs[i] / (1+r)^i for i = 1..N plus
\* the terminal value fcfs[N] * (1+g) / (r - g) discounted by (1+r)^N.
C2_Original ==
    (Done("dcf_valuation") /\ args.discount_rate # args.terminal_growth_rate) =>
        /\ ~ret.raised
        /\ ret.value = EnterpriseValue(args.free_cash_flows, args.discount_rate,
                                       args.terminal_growth_rate)

\* C2 amended: the same for r # g and r # -1; at r = -1 the first discount
\* division raises ZeroDivisionError and nothing is returned.
C2_DcfFormula ==
    Done("dcf_valuation") =>
        /\ (args.discount_rate # args.terminal_growth_rate /\ args.discount_rate # Num(-1)) =>
              /\ ~ret.raised
              /\ ret.value = EnterpriseValue(args.free_cash_flows, args.discount_rate,
                                             args.terminal_growth_rate)
        /\ args.discount_rate = Num(-1) => ret.raised

\* [1, 2] at r = 1/4, g = 0: 1/(5/4) + 2/(5/4)^2 + (2 * 1 / (1/4)) / (5/4)^2 = 36/5.
C2_Witness ==
    /\ Done("dcf_valuation")
    /\ args.free_cash_flows = <<Num(1), Num(2)>>
    /\ args.discount_rate = Frac(1, 4)
    /\ args.terminal_growth_rate = Num(0)
    /\ ~ret.raised
    /\ ret.value = Frac(36, 5)

\* C3: dcf_valuation ends in an error outcome, not a returned number,
\* whenever discount_rate = terminal_growth_rate, for every non-empty
\* schedule.
C3_DegenerateRateRaises ==
    (Done("dcf_valuation") /\ args.discount_rate = args.terminal_growth_rate) =>
        /\ ret.raised
        /\ ret.value = ZeroDivisionError

\* Equal rates with a last cash flow of 0 (0 / 0) and a rate other than -1.
C3_Witness ==
    /\ Done("dcf_valuation")
    /\ args.discount_rate = args.terminal_growth_rate
    /\ args.discount_rate = Frac(1, 10)
    /\ args.free_cash_flows = <<Num(2), Num(0)>>
    /\ ret.raised

\* A later discount rate r2 > r gives a strictly smaller value than the one
\* returned for r, whenever both calls return.
SmallerAtLargerRates ==
    \A r2 \in Rates :
        LET v2 == dcf_valuation(args.free_cash_flows, r2, args.terminal_growth_rate)
        IN  (Less(args.discount_rate, r2) /\ ~ret.raised /\ ~Raised(v2)) =>
                Less(v2, ret.value)

\* C8 as stated: for positive cash flows and a fixed g, discount rates
\* r1 < r2 both greater than g give dcf_valuation(r1) > dcf_valuation(r2).
C8_Original ==
    (/\ Done("dcf_valuation")
     /\ PositiveSchedule(args.free_cash_flows)
     /\ Less(args.terminal_growth_rate, args.discount_rate)) => SmallerAtLargerRates

\* C8 amended: the same for discount rates r1 < r2 that are greater than g
\* and greater than -1; both calls then return a number.
C8_DecreasingInDiscountRate ==
    (/\ Done("dcf_valuation")
     /\ PositiveSchedule(args.free_cash_flows)
     /\ Less(args.terminal_growth_rate, args.discount_rate)
     /\ Less(Num(-1), args.discount_rate)) =>
        /\ ~ret.raised
        /\ \A r2 \in Rates :
              Less(args.discount_rate, r2) =>
                  LET v2 == dcf_valuation(args.free_cash_flows, r2, args.terminal_growth_rate)
                  IN  ~Raised(v2) /\ Less(v2, ret.value)

\* A positive schedule valued at r = 1/10 > g = 0, with larger rates to compare.
C8_Witness ==
    /\ Done("dcf_valuation")
    /\ args.free_cash_flows = <<Num(1), Num(2)>>
    /\ args.discount_rate = Frac(1, 10)
    /\ args.terminal_growth_rate = Num(0)
    /\ ~ret.raised
    /\ Less(dcf_valuation(args.free_cash_flows, Num(1), args.terminal_growth_rate), ret.value)

\* C4: calculate_npv(schedule, 0) is the plain sum of the schedule's
\* elements, for every non-empty schedule.
C4_NpvAtZeroRateIsSum ==
    (Done("calculate_npv") /\ args.r = Num(0)) =>
        /\ ~ret.raised
        /\ ret.value = sum(args.fcff)

\* [2, -1] at rate 0: 2 - 1 = 1.
C4_Witness ==
    /\ Done("calculate_npv")
    /\ args.r = Num(0)
    /\ args.fcff = <<Num(2), Num(-1)>>
    /\ ret.value = Num(1)

\* C5 as stated: calculate_npv(schedule, -1) ends in an error outcome for
\* every non-empty schedule.
C5_Original == (Done("calculate_npv") /\ args.r = Num(-1)) => ret.raised

\* C5 amended: calculate_npv(schedule, -1) ends in an error outcome for every
\* schedule of two or more elements; for a one-element schedule it returns
\* that element, the only divisor being (1 + r) ** 0 = 1.
C5_NpvAtMinusOne ==
    (Done("calculate_npv") /\ args.r = Num(-1)) =>
        /\ Len(args.fcff) >= 2 => ret.raised /\ ret.value = ZeroDivisionError
        /\ Len(args.fcff) = 1 => ~ret.raised /\ ret.value = args.fcff[1]

C5_Witness ==
    /\ Done("calculate_npv")
    /\ args.r = Num(-1)
    /\ Len(args.fcff) = 2
    /\ ret.raised

AllEqualBaseNpv ==
    /\ ~ret.raised
    /\ Len(ret.value) = args.num_simulations
    /\ \A k \in 1..Len(ret.value) : ret.value[k] = calculate_npv(args.fcff, args.r_mean)

\* C6 as stated: monte_carlo_simulation(schedule, r, 0, n) returns exactly n
\* values, each equal to calculate_npv(schedule, r), for every schedule,
\* every rate r and every n >= 0.
C6_Original ==
    (Done("monte_carlo_simulation") /\ args.r_std = Num(0)) => AllEqualBaseNpv

\* C6 amended: the same for every rate r at which calculate_npv(schedule, r)
\* returns a value, and for n = 0; when calculate_npv(schedule, r) raises and
\* n >= 1, the simulation raises too.
C6_ZeroStdRepeatsBaseNpv ==
    (Done("monte_carlo_simulation") /\ args.r_std = Num(0)) =>
        IF Raised(calculate_npv(args.fcff, args.r_mean)) /\ args.num_simulations >= 1
        THEN ret.raised
        ELSE /\ ~ret.raised
             /\ Len(ret.value) = args.num_simulations
             /\ \A k \in 1..Len(ret.value) :
                   ret.value[k] = calculate_npv(args.fcff, args.r_mean)

\* Two trials of [1, 2] at mean 1/4 and deviation 0: 1 + 2/(5/4) = 13/5 twice.
C6_Witness ==
    /\ Done("monte_carlo_simulation")
    /\ args.r_std = Num(0)
    /\ args.num_simulations = 2
    /\ args.fcff = <<Num(1), Num(2)>>
    /\ args.r_mean = Frac(1, 4)
    /\ ret.value = <<Frac(13, 5), Frac(13, 5)>>

FcffSweepAroundZero ==
    /\ Done("sensitivity")
    /\ args.variable = "FCFF"
    /\ args.range_lo <= 0
    /\ 0 <= args.range_hi

\* One row per integer of lo..hi in increasing order, the change = 0 row
\* carrying calculate_npv of the unmodified schedule at the base rate.
SweepTable ==
    /\ ~ret.raised
    /\ Len(ret.value) = args.range_hi - args.range_lo + 1
    /\ \A k \in 1..Len(ret.value) : ret.value[k][1] = args.range_lo + k - 1
    /\ ret.value[1 - args.range_lo] = <<0, calculate_npv(args.fcff, args.base_discount_rate)>>

\* C9 as stated: the FCFF sweep over [lo, hi] with lo <= 0 <= hi produces one
\* (change, NPV) row per integer in lo..hi in increasing order, and its
\* change = 0 row carries exactly calculate_npv(schedule, base_rate).
C9_Original == FcffSweepAroundZero => SweepTable

\* C9 amended: the same whenever calculate_npv(schedule, base_rate) returns a
\* value; when it raises, the sweep raises and produces no row.  The example
\* [-10, 10] on [100, 100, 100] at 0.1 gives 21 rows, the 11th (0, 33100/121).
C9_SweepKeepsBaseNpv ==
    FcffSweepAroundZero =>
        /\ IF Raised(calculate_npv(args.fcff, args.base_discount_rate))
           THEN ret.raised
           ELSE SweepTable
        /\ args = ExampleSensitivity =>
              /\ Len(ret.value) = 21
              /\ ret.value[11] = <<0, Frac(33100, 121)>>

C9_Witness ==
    /\ Done("sensitivity")
    /\ args = ExampleSensitivity
    /\ ret.value[1][1] = -10
    /\ ret.value[11] = <<0, Frac(33100, 121)>>
    /\ ret.value[21][1] = 10

====
